---- MODULE Spec2Model ----
(***************************************************************************)
(* State-machine model of SamTextApp (src/script.js): the text area, its   *)
(* three animated counters, the status line, the pending timers of the     *)
(* event loop and the localStorage entries the editor reads and writes.    *)
(*                                                                         *)
(* Text is a sequence of one-character strings.  The timeouts a handler   *)
(* sets (typing indicator, debounced save, paste) carry their remaining    *)
(* delay; time advances to the next expiry or the next grid instant, and a *)
(* due callback runs before time moves on.  User events arrive on a grid   *)
(* of TypingDelay ms, several at one instant included.  The 30 s autosave  *)
(* interval and the 3 s status hide may run at any grid instant.  The      *)
(* 20 ms counter animations run round-robin in a queue of their own.       *)
(* Styling (classList, style, focus) is outside the modelled state.        *)
(*                                                                         *)
(* Spec is the editor on a page without counters over a storage that may   *)
(* change between sessions; BurstSpec also records the bursts of input     *)
(* events; StatsSpec is the editor on a page with the character counter;   *)
(* TextSpec and CopySpec resume a session with a longer text for the Tab   *)
(* key, the stats and the clipboard copy; TabsSpec adds a second editor on *)
(* the same storage.                                                       *)
(***************************************************************************)
EXTENDS Integers, Sequences, FiniteSets, TLC

\* ------------------------------------------------------------ bounds
MaxLen == 1        \* longest text-area content explored
MaxAnim == 3       \* most counter animations alive at once
MaxBelow == 2      \* displayed counters are tracked down to -MaxBelow
MaxPastes == 1     \* most pastes whose timeout is pending at once
MaxText == 4       \* longest text an editing session is resumed with

\* ------------------------------------------------- program constants
TypingDelay == 1000       \* handleTextInput: typing indicator timeout
AutoSaveDelay == 2000     \* handleTextInput: debounced save timeout
PasteDelay == 10          \* handlePaste: timeout
AutoSaveEvery == 30000    \* startAutoSave: interval
StatusDelay == 3000       \* showStatus: hide timeout
AnimMaxSteps == 10        \* animateNumber: steps <= 10 are animated

Grid == TypingDelay       \* user events arrive at multiples of Grid

Alphabet == {"a", "\t"}
Ws == {" ", "\n", "\t"}

RECURSIVE SeqsUpTo(_)
SeqsUpTo(n) ==
  IF n = 0 THEN {<<>>}
  ELSE LET S == SeqsUpTo(n - 1)
       IN  S \cup {Append(s, c) : s \in {t \in S : Len(t) = n - 1}, c \in Alphabet}

Contents == SeqsUpTo(MaxLen)

\* the texts of the sessions resumed in the middle of editing
Chars == {"a", " ", "\t", "\n"}

RECURSIVE TextsUpTo(_)
TextsUpTo(n) ==
  IF n = 0 THEN {<<>>}
  ELSE LET S == TextsUpTo(n - 1)
       IN  S \cup {Append(s, c) : s \in {t \in S : Len(t) = n - 1}, c \in Chars}

Texts == TextsUpTo(MaxText)

Min(a, b) == IF a < b THEN a ELSE b

\* ------------------------------------------------------ String methods
RECURSIVE TrimStart(_)
TrimStart(s) ==
  IF s = <<>> THEN s
  ELSE IF Head(s) \in Ws THEN TrimStart(Tail(s)) ELSE s

RECURSIVE TrimEnd(_)
TrimEnd(s) ==
  IF s = <<>> THEN s
  ELSE IF s[Len(s)] \in Ws THEN TrimEnd(SubSeq(s, 1, Len(s) - 1)) ELSE s

\* String.prototype.trim
trim(s) == TrimEnd(TrimStart(s))

\* s.split(/\s+/): the pieces between maximal runs of whitespace
RECURSIVE SplitRuns(_, _, _)
SplitRuns(s, cur, out) ==
  IF s = <<>> THEN Append(out, cur)
  ELSE IF Head(s) \in Ws THEN SplitRuns(TrimStart(s), <<>>, Append(out, cur))
  ELSE SplitRuns(Tail(s), Append(cur, Head(s)), out)

splitWs(s) == SplitRuns(s, <<>>, <<>>)

\* s.split(sep) for a one-character separator
RECURSIVE SplitOn(_, _, _, _)
SplitOn(s, sep, cur, out) ==
  IF s = <<>> THEN Append(out, cur)
  ELSE IF Head(s) = sep THEN SplitOn(Tail(s), sep, <<>>, Append(out, cur))
  ELSE SplitOn(Tail(s), sep, Append(cur, Head(s)), out)

split(s, sep) == SplitOn(s, sep, <<>>, <<>>)

\* ------------------------------------------------------------- stats
\* the word count without the trim of line 187
words_NoTrim(text) == IF text = <<>> THEN 0 ELSE Len(splitWs(text))

\* the line count without the test for the empty text of line 188
lines_NoEmpty(text) == Len(split(text, "\n"))

\* updateStats, lines 186-188
chars(text) == Len(text)
words(text) == IF trim(text) = <<>> THEN 0 ELSE Len(splitWs(trim(text)))
lines(text) == IF text = <<>> THEN 0 ELSE Len(split(text, "\n"))

\* the stats of the record with the words of the text as it is split
stats_NoTrim(content) ==
  [chars |-> Len(content),
   words |-> IF content = <<>> THEN 0 ELSE Len(splitWs(content)),
   lines |-> IF content = <<>> THEN 0 ELSE Len(split(content, "\n"))]

\* saveToLocalStorage, lines 365-369
stats(content) ==
  [chars |-> Len(content),
   words |-> IF trim(content) = <<>> THEN 0 ELSE Len(splitWs(trim(content))),
   lines |-> IF content = <<>> THEN 0 ELSE Len(split(content, "\n"))]

NoStats == [chars |-> 0, words |-> 0, lines |-> 0]

\* --------------------------------------------------------------- JSON
\* JSON.stringify of a string: quoted, with the control characters, the
\* quote and the backslash escaped
EscapeChar(ch) ==
  IF ch = "\n" THEN <<"\\", "n">>
  ELSE IF ch = "\t" THEN <<"\\", "t">>
  ELSE IF ch = "\"" THEN <<"\\", "\"">>
  ELSE IF ch = "\\" THEN <<"\\", "\\">>
  ELSE <<ch>>

RECURSIVE EscapeAll(_)
EscapeAll(s) == IF s = <<>> THEN <<>> ELSE EscapeChar(Head(s)) \o EscapeAll(Tail(s))

Quote(s) == <<"\"">> \o EscapeAll(s) \o <<"\"">>

UnescapeChar(ch) ==
  IF ch = "n" THEN "\n" ELSE IF ch = "t" THEN "\t" ELSE ch

RECURSIVE UnescapeAll(_)
UnescapeAll(s) ==
  IF s = <<>> THEN <<>>
  ELSE IF Head(s) = "\\" /\ Len(s) >= 2
       THEN <<UnescapeChar(s[2])>> \o UnescapeAll(Tail(Tail(s)))
       ELSE <<Head(s)>> \o UnescapeAll(Tail(s))

\* JSON.parse of a string literal
Unquote(lit) == UnescapeAll(SubSeq(lit, 2, Len(lit) - 1))

\* The value held under 'sam-text-content'.  kind: "absent" (getItem gives
\* null), "empty" (the empty string), "malformed" (no JSON), "null" (the JSON
\* text null), "json" (a JSON object; content is its "content" member as
\* written, a string literal, when hasContent).
Entry(kind, hasContent, lit, ts, st) ==
  [kind |-> kind, hasContent |-> hasContent, content |-> lit,
   timestamp |-> ts, stats |-> st]

Absent == Entry("absent", FALSE, <<>>, "none", NoStats)
EmptyText == Entry("empty", FALSE, <<>>, "none", NoStats)
Malformed == Entry("malformed", FALSE, <<>>, "none", NoStats)
JsonNull == Entry("null", FALSE, <<>>, "none", NoStats)
EmptyObject == Entry("json", FALSE, <<>>, "none", NoStats)

Undefined == <<"undefined">>

\* JSON.stringify(data), line 372
JSONstringify(data) ==
  Entry("json", TRUE, Quote(data.content), data.timestamp, data.stats)

\* JSON.parse(savedData), line 382: ok = FALSE is a SyntaxError
JSONparse(savedData) ==
  IF savedData.kind = "json"
  THEN [ok |-> TRUE, isNull |-> FALSE,
        content |-> IF savedData.hasContent THEN Unquote(savedData.content)
                    ELSE Undefined,
        timestamp |-> savedData.timestamp]
  ELSE IF savedData.kind = "null"
  THEN [ok |-> TRUE, isNull |-> TRUE, content |-> Undefined, timestamp |-> "none"]
  ELSE [ok |-> FALSE, isNull |-> FALSE, content |-> Undefined, timestamp |-> "none"]

\* ------------------------------------------------------------- state
VARIABLES
  pc,          \* "constructed", "running", "aborted" or "unloaded"
  dom,         \* ids of the elements the page has
  storage,     \* localStorage: "ok", "full" (setItem throws) or "disabled"
  store,       \* the value under 'sam-text-content'
  themeStore,  \* the value under 'sam-theme' ("none": no such key)
  fontStore,   \* the value under 'sam-font-size' ("none": no such key)
  content,     \* textArea.value
  dataTheme,   \* the data-theme attribute of the document ("none": not set)
  fontSize,    \* textArea.style.fontSize ("none": not set)
  isTyping,    \* this.isTyping
  timers,      \* pending timers, oldest first: [kind, rem]
  phase,       \* the time since the last grid instant
  display,     \* the number each counter element shows
  anim,        \* live animateNumber intervals, next to fire first
  status,      \* the status line: [text, type, shown]
  lastOp,      \* what the last step did (history)
  saved,       \* the content of the last successful save (history)
  other,       \* a second editor on the same storage: [pc, content]
  recording,   \* whether burst is recorded
  burst        \* the input events since the debounced save last ran (history)

vars == <<pc, dom, storage, store, themeStore, fontStore, content, dataTheme,
          fontSize, isTyping, timers, phase, display, anim, status, lastOp,
          saved, other, recording, burst>>

AllIds == {"textInput", "charCount", "wordCount", "lineCount", "statusMessage"}
\* pages without the counters, with and without the text area
Pages == {{"textInput", "statusMessage"}, {"statusMessage"}}
\* a page with the character counter
StatPages == {{"textInput", "charCount"}}

Timer(kind, rem) == [kind |-> kind, rem |-> rem]

\* The fields of the editor and of the page that a handler reads and writes,
\* with the outcome of the handler so far: saves (calls of
\* saveToLocalStorage), failed (a store access threw), threw (an exception
\* is propagating), prompted/accepted (the confirm dialog), start/end (the
\* selection a Tab key found) and cursor (where it left the collapsed
\* selection); -1 stands for none; copied (the text reached the clipboard).
This ==
  [content |-> content, store |-> store, themeStore |-> themeStore,
   fontStore |-> fontStore, dataTheme |-> dataTheme, fontSize |-> fontSize,
   isTyping |-> isTyping, timers |-> timers, display |-> display,
   anim |-> anim, status |-> status,
   saves |-> 0, failed |-> FALSE, threw |-> FALSE,
   prompted |-> FALSE, accepted |-> FALSE,
   start |-> -1, end |-> -1, cursor |-> -1, copied |-> FALSE]

\* setTimeout / setInterval
setTimer(m, kind, delay) == [m EXCEPT !.timers = Append(@, Timer(kind, delay))]

\* clearTimeout(this.<kind>Timer): the field holds the last timer of that kind
clearTimeout(m, kind) ==
  [m EXCEPT !.timers = SelectSeq(@, LAMBDA t : t.kind # kind)]

\* the status line at opacity 0: what it held is no longer visible
Hidden == [text |-> "", type |-> "", shown |-> FALSE]

\* showStatus, lines 418-431
showStatus(m, message, type) ==
  LET m1 == [m EXCEPT !.status = [text |-> message, type |-> type, shown |-> TRUE]]
  IN  IF "statusMessage" \notin dom THEN m
      ELSE IF \E i \in 1..Len(m.timers) : m.timers[i].kind = "status"
      THEN m1   \* hides do the same thing whenever they run: one is kept pending
      ELSE setTimer(m1, "status", StatusDelay)

\* setTypingIndicator, lines 410-416
setTypingIndicator(m, typing) == [m EXCEPT !.isTyping = typing]

Abs(n) == IF n < 0 THEN -n ELSE n

\* animateNumber, lines 203-221
animateNumber(m, element, newValue) ==
  LET currentValue == m.display[element]
      increment == IF newValue > currentValue THEN 1 ELSE -1
      steps == Abs(newValue - currentValue)
  IN  IF steps <= AnimMaxSteps
      THEN [m EXCEPT !.anim = Append(@, [el |-> element, current |-> currentValue,
                                         increment |-> increment, newValue |-> newValue])]
      ELSE [m EXCEPT !.display[element] = newValue]

animateIfPresent(m, element, newValue) ==
  IF element \in dom THEN animateNumber(m, element, newValue) ELSE m

\* updateStats, lines 184-201
updateStats(m) ==
  LET text == m.content
      m1 == animateIfPresent(m, "charCount", chars(text))
      m2 == animateIfPresent(m1, "wordCount", words(text))
  IN  animateIfPresent(m2, "lineCount", lines(text))

\* saveToLocalStorage storing the trimmed text
saveToLocalStorage_Trimmed(m) ==
  LET data == [content |-> trim(m.content), timestamp |-> "iso",
               stats |-> stats(m.content)]
  IN  IF storage = "ok"
      THEN [m EXCEPT !.store = JSONstringify(data), !.saves = @ + 1]
      ELSE [m EXCEPT !.saves = @ + 1, !.failed = TRUE]

\* saveToLocalStorage leaving a record that is already stored in place
saveToLocalStorage_KeepFirst(m) ==
  LET data == [content |-> m.content, timestamp |-> "iso", stats |-> stats(m.content)]
  IN  IF storage # "ok" THEN [m EXCEPT !.saves = @ + 1, !.failed = TRUE]
      ELSE IF m.store.kind = "json" /\ m.store.hasContent /\ m.store # JSONstringify(data)
           THEN [m EXCEPT !.saves = @ + 1]
           ELSE [m EXCEPT !.store = JSONstringify(data), !.saves = @ + 1]

\* saveToLocalStorage without its try/catch: a throwing setItem propagates
saveToLocalStorage_NoCatch(m) ==
  LET data == [content |-> m.content, timestamp |-> "iso", stats |-> stats(m.content)]
  IN  IF storage = "ok"
      THEN [m EXCEPT !.store = JSONstringify(data), !.saves = @ + 1]
      ELSE [m EXCEPT !.saves = @ + 1, !.failed = TRUE, !.threw = TRUE]

\* saveToLocalStorage, lines 358-376: the catch swallows a throwing setItem
saveToLocalStorage(m) ==
  LET data == [content |-> m.content, timestamp |-> "iso", stats |-> stats(m.content)]
  IN  IF storage = "ok"
      THEN [m EXCEPT !.store = JSONstringify(data), !.saves = @ + 1]
      ELSE [m EXCEPT !.saves = @ + 1, !.failed = TRUE]

\* loadSavedContent without its try/catch
loadSavedContent_NoCatch(m, recent) ==
  IF storage = "disabled" THEN [m EXCEPT !.failed = TRUE, !.threw = TRUE]
  ELSE IF m.store.kind \in {"absent", "empty"} THEN m
  ELSE LET data == JSONparse(m.store)
       IN  IF ~data.ok \/ data.isNull THEN [m EXCEPT !.failed = TRUE, !.threw = TRUE]
           ELSE LET value == IF data.content = Undefined \/ data.content = <<>>
                             THEN <<>> ELSE data.content
                    m1 == updateStats([m EXCEPT !.content = value])
                IN  IF data.timestamp # "none" /\ recent
                    THEN showStatus(m1, "Restored content from N minutes ago", "info")
                    ELSE m1

\* loadSavedContent, lines 378-399: the catch swallows a throwing getItem,
\* a SyntaxError of JSON.parse and the TypeError of null.content; recent says
\* whether the clock is less than 60 minutes past the stored timestamp
loadSavedContent(m, recent) ==
  IF storage = "disabled" THEN [m EXCEPT !.failed = TRUE]
  ELSE IF m.store.kind \in {"absent", "empty"} THEN m
  ELSE LET data == JSONparse(m.store)
       IN  IF ~data.ok \/ data.isNull THEN [m EXCEPT !.failed = TRUE]
           ELSE LET value == IF data.content = Undefined \/ data.content = <<>>
                             THEN <<>> ELSE data.content
                    m1 == updateStats([m EXCEPT !.content = value])
                IN  IF data.timestamp # "none" /\ recent
                    THEN showStatus(m1, "Restored content from N minutes ago", "info")
                    ELSE m1

\* initializeTheme, lines 337-344
initializeTheme(m) ==
  IF storage = "disabled" THEN m
  ELSE [m EXCEPT !.dataTheme = IF m.themeStore = "none" THEN "light" ELSE m.themeStore]

\* initializeFontSize, lines 346-356
initializeFontSize(m) ==
  IF storage = "disabled" THEN m
  ELSE [m EXCEPT !.fontSize = IF m.fontStore = "none" THEN "16" ELSE m.fontStore]

\* startAutoSave, lines 401-408
startAutoSave(m) == setTimer(m, "interval", AutoSaveEvery)

\* setupElements, lines 34-65, with the text area present: a throw in a step
\* skips the rest and is caught at line 61
setupSteps(m, recent) ==
  LET m1 == loadSavedContent(m, recent)
      m2 == IF m1.threw THEN m1
            ELSE updateStats(startAutoSave(initializeFontSize(initializeTheme(m1))))
  IN  IF m2.threw
      THEN showStatus([m2 EXCEPT !.threw = FALSE], "Error initializing application", "error")
      ELSE m2

\* handleTextInput without the clearTimeout of line 119
handleTextInput_NoCancel(m) ==
  LET m1 == setTypingIndicator(updateStats(m), TRUE)
      m2 == setTimer(clearTimeout(m1, "typing"), "typing", TypingDelay)
  IN  setTimer(m2, "autosave", AutoSaveDelay)

\* handleTextInput, lines 106-123
handleTextInput(m) ==
  LET m1 == setTypingIndicator(updateStats(m), TRUE)
      m2 == setTimer(clearTimeout(m1, "typing"), "typing", TypingDelay)
  IN  setTimer(clearTimeout(m2, "autosave"), "autosave", AutoSaveDelay)

\* One line of removeIndentation's loop, lines 440-444
unindent(line) ==
  IF Len(line) >= 1 /\ line[1] = "\t" THEN SubSeq(line, 2, Len(line))
  ELSE IF Len(line) >= 4 /\ SubSeq(line, 1, 4) = <<" ", " ", " ", " ">>
       THEN SubSeq(line, 5, Len(line))
       ELSE line

\* Array.prototype.join
RECURSIVE join(_, _)
join(parts, sep) ==
  IF parts = <<>> THEN <<>>
  ELSE IF Len(parts) = 1 THEN parts[1]
  ELSE parts[1] \o <<sep>> \o join(Tail(parts), sep)

\* removeIndentation, lines 433-447 (start and end are 0-based offsets)
removeIndentation(value, start, end) ==
  LET ls == split(value, "\n")
      startLine == Len(split(SubSeq(value, 1, start), "\n")) - 1
      endLine == Len(split(SubSeq(value, 1, end), "\n")) - 1
      out == [i \in 1..Len(ls) |->
                IF startLine <= i - 1 /\ i - 1 <= endLine THEN unindent(ls[i]) ELSE ls[i]]
  IN  join(out, "\n")

\* handleKeyDown for the Tab key, lines 125-144
handleKeyDown(m, shiftKey, start, end) ==
  LET value == m.content
  IN  updateStats([m EXCEPT
        !.start = start, !.end = end,
        !.content =
          IF shiftKey THEN removeIndentation(value, start, end)
          ELSE SubSeq(value, 1, start) \o <<"\t">> \o SubSeq(value, end + 1, Len(value)),
        !.cursor = IF shiftKey THEN @ ELSE start + 1])

\* handlePaste, lines 146-152
handlePaste(m) == setTimer(m, "paste", PasteDelay)

\* the callback of handlePaste's timeout, lines 148-151
pasteCallback(m) == saveToLocalStorage(updateStats(m))

\* saveContent, lines 223-239
saveContent(m) ==
  LET m1 == saveToLocalStorage(m)
  IN  IF m1.threw
      THEN showStatus([m1 EXCEPT !.threw = FALSE], "Error saving content", "error")
      ELSE showStatus(m1, "Content saved successfully!", "success")

\* clearContent without the early return of lines 242-245
clearContent_NoGuard(m, ok) ==
  IF ~ok THEN [m EXCEPT !.prompted = TRUE]
  ELSE LET m1 == saveToLocalStorage(updateStats(
                   [m EXCEPT !.prompted = TRUE, !.accepted = TRUE, !.content = <<>>]))
       IN  IF m1.threw THEN m1 ELSE showStatus(m1, "Content cleared", "success")

\* clearContent leaving the save to the debounce timer
clearContent_NoSave(m, ok) ==
  IF trim(m.content) = <<>> THEN showStatus(m, "Text area is already empty", "info")
  ELSE IF ~ok THEN [m EXCEPT !.prompted = TRUE]
  ELSE showStatus(handleTextInput(
         [m EXCEPT !.prompted = TRUE, !.accepted = TRUE, !.content = <<>>]),
         "Content cleared", "success")

\* clearContent, lines 241-254; ok is the answer to confirm()
clearContent(m, ok) ==
  IF trim(m.content) = <<>> THEN showStatus(m, "Text area is already empty", "info")
  ELSE IF ~ok THEN [m EXCEPT !.prompted = TRUE]
  ELSE LET m1 == saveToLocalStorage(updateStats(
                   [m EXCEPT !.prompted = TRUE, !.accepted = TRUE, !.content = <<>>]))
       IN  IF m1.threw THEN m1 ELSE showStatus(m1, "Content cleared", "success")

\* copyContent, lines 256-281.  api: navigator.clipboard.writeText "resolves",
\* "rejects" or is "missing" (a TypeError); exec: document.execCommand('copy')
\* returns "true" or "false" or "throws".  The fallback runs in the catch
\* block, outside any try.
copyContent(m, api, exec) ==
  IF trim(m.content) = <<>> THEN showStatus(m, "Nothing to copy", "info")
  ELSE IF api = "resolves"
  THEN showStatus([m EXCEPT !.copied = TRUE], "Content copied to clipboard!", "success")
  ELSE IF exec = "throws" THEN [m EXCEPT !.threw = TRUE]
  ELSE showStatus([m EXCEPT !.copied = (exec = "true")],
                  "Content copied to clipboard!", "success")

\* handleBeforeUnload saving only text that is not blank, as the interval does
handleBeforeUnload_NonBlank(m) ==
  IF trim(m.content) # <<>> THEN saveToLocalStorage(m) ELSE m

\* handleBeforeUnload, lines 174-177
handleBeforeUnload(m) == saveToLocalStorage(m)

\* the interval's callback without the condition of line 404
autoSaveCallback_Always(m) == saveToLocalStorage(m)

\* the callback of startAutoSave's interval, lines 403-407
autoSaveCallback(m) ==
  IF trim(m.content) # <<>> THEN saveToLocalStorage(m) ELSE m

\* the callback of handleTextInput's second timeout, lines 120-122
debounceCallback(m) == saveToLocalStorage(m)

\* the callback of handleTextInput's first timeout, lines 114-116
typingCallback(m) == setTypingIndicator(m, FALSE)

\* the callback of showStatus's timeout, lines 427-430
hideCallback(m) == [m EXCEPT !.status = Hidden]

\* ------------------------------------------------------- bookkeeping
Op(name, m) ==
  [name |-> name, saves |-> m.saves, failed |-> m.failed, threw |-> m.threw,
   prompted |-> m.prompted, accepted |-> m.accepted,
   start |-> m.start, end |-> m.end, cursor |-> m.cursor, copied |-> m.copied]

Constructed ==
  [name |-> "construct", saves |-> 0, failed |-> FALSE, threw |-> FALSE,
   prompted |-> FALSE, accepted |-> FALSE, start |-> -1, end |-> -1, cursor |-> -1,
   copied |-> FALSE]

\* The burst of input events: open while its debounce timer is pending;
\* inputs (1, or 2 for more), dsaves (saves by the debounce callback, 2 for
\* more), pwrote (a paste of the burst has saved), owed (pastes whose save has
\* not run yet), last (the content at the last input event).
Idle == [open |-> FALSE, inputs |-> 0, dsaves |-> 0, pwrote |-> FALSE, owed |-> 0,
         last |-> <<>>]

\* a closed burst is visible in the state its save produced, then forgotten
Aged == IF burst.open THEN burst ELSE [Idle EXCEPT !.owed = burst.owed]

\* an input event joins the burst whose debounce timer is still pending
Joined(m, pasted) ==
  LET b == IF burst.open THEN burst ELSE [Aged EXCEPT !.open = TRUE]
  IN  IF ~recording THEN Idle
      ELSE [b EXCEPT !.inputs = Min(@ + 1, 2), !.last = m.content,
                     !.owed = IF pasted THEN @ + 1 ELSE @]

\* the debounced save has run: the burst is over
Closed(m) ==
  IF ~recording THEN Idle
  ELSE [burst EXCEPT !.open = FALSE, !.dsaves = Min(@ + m.saves, 2)]

\* the callback of a paste has run
PasteSaved(m) ==
  IF ~recording THEN Idle
  ELSE [Aged EXCEPT !.owed = @ - m.saves, !.pwrote = burst.open /\ m.saves > 0]

PendingPastes(ts) == Len(SelectSeq(ts, LAMBDA t : t.kind = "paste"))
NCounters == Cardinality(dom \cap {"charCount", "wordCount", "lineCount"})

\* the bounds of the model; room is kept for the animations a pending paste starts
Fits(m) ==
  /\ Len(m.anim) + NCounters * PendingPastes(m.timers) <= MaxAnim

Commit(m, name, b) ==
  /\ content' = m.content
  /\ store' = m.store
  /\ themeStore' = m.themeStore
  /\ fontStore' = m.fontStore
  /\ dataTheme' = m.dataTheme
  /\ fontSize' = m.fontSize
  /\ isTyping' = m.isTyping
  /\ timers' = m.timers
  /\ display' = m.display
  /\ anim' = m.anim
  /\ status' = m.status
  /\ lastOp' = Op(name, m)
  /\ saved' = IF m.saves > 0 /\ ~m.failed THEN m.content ELSE saved
  /\ other' = other
  /\ burst' = b

Due(ts) == {i \in 1..Len(ts) : ts[i].rem = 0}
NoDue == Due(timers) = {}
FirstDue == CHOOSE i \in Due(timers) : \A j \in Due(timers) : i <= j
RemoveAt(s, i) == SubSeq(s, 1, i - 1) \o SubSeq(s, i + 1, Len(s))

\* a user event: the handlers are bound, the instant is on the grid and every
\* callback that was due has run
UserEvent == pc = "running" /\ phase = 0 /\ NoDue

\* ------------------------------------------------------------ actions
\* the second editor before its page is opened
Closed2 == [pc |-> "closed", content |-> <<>>]

\* values the key holds that no save of this editor wrote
Foreign == {Absent, EmptyText, Malformed, JsonNull, EmptyObject}

\* the record an earlier session saved for a text of two characters
Earlier ==
  JSONstringify([content |-> <<"a", "a">>, timestamp |-> "iso",
                 stats |-> stats(<<"a", "a">>)])

Modes == {"ok", "full", "disabled"}

InitOn(pages, stores, modes, rec) ==
  /\ recording = rec
  /\ pc = "constructed"
  /\ dom \in pages
  /\ storage \in modes
  /\ store \in stores
  /\ themeStore = "dark"
  /\ fontStore = "none"
  /\ content = <<>>
  /\ dataTheme = "none"
  /\ fontSize = "none"
  /\ isTyping = FALSE
  /\ timers = <<>>
  /\ phase = 0
  /\ display = [el \in {"charCount", "wordCount", "lineCount"} |-> 0]
  /\ anim = <<>>
  /\ status = Hidden
  /\ lastOp = Constructed
  /\ saved = Undefined
  /\ other = Closed2
  /\ burst = Idle

\* setupElements with the theme and the autosave interval set up ahead of
\* the test for the text area
SetupElements_Partial ==
  /\ pc = "constructed"
  /\ IF "textInput" \notin dom
     THEN /\ pc' = "aborted"
          /\ Commit(showStatus(startAutoSave(initializeTheme(This)),
                               "Error initializing application", "error"),
                    "setupElements", Idle)
     ELSE /\ pc' = "running"
          /\ \E recent \in BOOLEAN :
               \E m \in {setupSteps(This, recent)} : Commit(m, "setupElements", Idle)
  /\ UNCHANGED <<dom, storage, phase, recording>>

\* setupElements, lines 34-65
SetupElements ==
  /\ pc = "constructed"
  /\ IF "textInput" \notin dom
     THEN /\ pc' = "aborted"
          /\ Commit(showStatus(This, "Error initializing application", "error"),
                    "setupElements", Idle)
     ELSE /\ pc' = "running"
          /\ \E recent \in BOOLEAN :
               \E m \in {setupSteps(This, recent)} : Commit(m, "setupElements", Idle)
  /\ UNCHANGED <<dom, storage, phase, recording>>

\* the user types or deletes: an input event
TextInput ==
  /\ UserEvent
  /\ \E value \in Contents :
       \E m \in {handleTextInput([This EXCEPT !.content = value])} :
          Fits(m) /\ Commit(m, "input", Joined(m, FALSE))
  /\ UNCHANGED <<pc, dom, storage, phase, recording>>

\* the user pastes: a paste event, then (when text is inserted) an input event
Paste ==
  /\ UserEvent
  /\ PendingPastes(timers) < MaxPastes
  /\ \E value \in Contents :
       \E m \in {handleTextInput([handlePaste(This) EXCEPT !.content = value])} :
          Fits(m) /\ Commit(m, "paste", Joined(m, TRUE))
  /\ UNCHANGED <<pc, dom, storage, phase, recording>>

\* Tab or Shift+Tab in the text area
TabKey ==
  /\ UserEvent
  /\ \E shiftKey \in BOOLEAN, start \in 0..Len(content), end \in 0..Len(content) :
       /\ start <= end
       /\ \E m \in {handleKeyDown(This, shiftKey, start, end)} :
              /\ Len(m.content) <= MaxLen \/ Len(m.content) <= Len(content)
              /\ Fits(m)
              /\ Commit(m, IF shiftKey THEN "shiftTab" ELSE "tab", Aged)
  /\ UNCHANGED <<pc, dom, storage, phase, recording>>

\* the save button or Ctrl/Cmd+S
Save ==
  /\ UserEvent
  /\ \E m \in {saveContent(This)} : Fits(m) /\ Commit(m, "save", Aged)
  /\ UNCHANGED <<pc, dom, storage, phase, recording>>

\* the copy button
Copy ==
  /\ UserEvent
  /\ \E api \in {"resolves", "rejects", "missing"}, exec \in {"true", "false", "throws"} :
       \E m \in {copyContent(This, api, exec)} : Fits(m) /\ Commit(m, "copy", Aged)
  /\ UNCHANGED <<pc, dom, storage, phase, recording>>

\* the clear button or Ctrl/Cmd+K
Clear ==
  /\ UserEvent
  /\ \E ok \in IF trim(content) = <<>> THEN {FALSE} ELSE BOOLEAN :
       \E m \in {clearContent(This, ok)} : Fits(m) /\ Commit(m, "clear", Aged)
  /\ UNCHANGED <<pc, dom, storage, phase, recording>>

TimerDue(kind) ==
  /\ pc \in {"running", "aborted"}
  /\ ~NoDue
  /\ timers[FirstDue].kind = kind

Fired == [This EXCEPT !.timers = RemoveAt(@, FirstDue)]

TypingTimeout ==
  /\ TimerDue("typing")
  /\ Commit(typingCallback(Fired), "other", Aged)
  /\ UNCHANGED <<pc, dom, storage, phase, recording>>

AutoSaveTimeout ==
  /\ TimerDue("autosave")
  /\ \E m \in {debounceCallback(Fired)} : Commit(m, "autoSaveTimeout", Closed(m))
  /\ UNCHANGED <<pc, dom, storage, phase, recording>>

PasteTimeout ==
  /\ TimerDue("paste")
  /\ \E m \in {pasteCallback(Fired)} : Commit(m, "pasteTimeout", PasteSaved(m))
  /\ UNCHANGED <<pc, dom, storage, phase, recording>>

StatusTimeout ==
  /\ pc \in {"running", "aborted"}
  /\ phase = 0
  /\ NoDue
  /\ \E i \in 1..Len(timers) : timers[i].kind = "status"
  /\ Commit(hideCallback(clearTimeout(This, "status")), "other", Aged)
  /\ UNCHANGED <<pc, dom, storage, phase, recording>>

\* a tick of the setInterval of startAutoSave
AutoSaveTick ==
  /\ pc = "running"
  /\ phase = 0
  /\ NoDue
  /\ \E i \in 1..Len(timers) : timers[i].kind = "interval"
  /\ \E m \in {autoSaveCallback(This)} : Commit(m, "autoSaveTick", Aged)
  /\ UNCHANGED <<pc, dom, storage, phase, recording>>

\* a tick of the oldest-due setInterval of animateNumber, lines 210-217
AnimTick ==
  /\ pc = "running"
  /\ anim # <<>>
  /\ LET t == Head(anim)
         next == IF t.current + t.increment < -MaxBelow THEN -MaxBelow
                 ELSE t.current + t.increment
         m == [This EXCEPT !.display[t.el] = next,
                 !.anim = IF next = t.newValue THEN Tail(anim)
                          ELSE Append(Tail(anim), [t EXCEPT !.current = next])]
     IN  Commit(m, "other", Aged)
  /\ UNCHANGED <<pc, dom, storage, phase, recording>>

\* The timeouts of the handlers of one input are counted down.  The 30 s
\* interval of startAutoSave and the 3 s hides of showStatus are not: a tick
\* and a pending hide may fall on any grid instant.
Counted(t) == t.kind \notin {"interval", "status"}

\* time passes, up to the next expiry or the next grid instant
Advance ==
  /\ pc \in {"running", "aborted"}
  /\ NoDue
  /\ \E i \in 1..Len(timers) : Counted(timers[i])
  /\ LET toGrid == Grid - phase
         rems == {timers[i].rem : i \in {j \in 1..Len(timers) : Counted(timers[j])}}
         d == IF \E r \in rems : r < toGrid
              THEN CHOOSE r \in rems : \A q \in rems : r <= q
              ELSE toGrid
     IN  /\ phase' = (phase + d) % Grid
         /\ Commit([This EXCEPT !.timers = [i \in 1..Len(timers) |->
                       IF Counted(timers[i]) THEN [timers[i] EXCEPT !.rem = @ - d]
                       ELSE timers[i]]],
                   "other", Aged)
  /\ UNCHANGED <<pc, dom, storage, recording>>

\* the page is left: the beforeunload listener of line 102 runs when bound,
\* and every pending timer dies with the page
Unload ==
  /\ pc \in {"running", "aborted"}
  /\ NoDue
  /\ LET m == IF pc = "running" THEN handleBeforeUnload(This) ELSE This
     IN  Commit([m EXCEPT !.timers = <<>>, !.anim = <<>>], "unload", Idle)
  /\ pc' = "unloaded"
  /\ phase' = 0
  /\ UNCHANGED <<dom, storage, recording>>

\* the page is opened again
Reload ==
  /\ pc = "unloaded"
  /\ pc' = "constructed"
  /\ content' = <<>>
  /\ dataTheme' = "none"
  /\ fontSize' = "none"
  /\ isTyping' = FALSE
  /\ display' = [el \in {"charCount", "wordCount", "lineCount"} |-> 0]
  /\ status' = Hidden
  /\ lastOp' = Constructed
  /\ burst' = Idle
  /\ UNCHANGED <<dom, storage, store, themeStore, fontStore, timers, phase, anim,
                 saved, other, recording>>

\* the browser's storage fills up, is freed, is disabled or enabled
StorageChange ==
  /\ pc = "unloaded"
  /\ \E mode \in Modes \ {storage} : storage' = mode
  /\ lastOp' = Op("other", This)
  /\ burst' = Aged
  /\ UNCHANGED <<pc, dom, store, themeStore, fontStore, content, dataTheme,
                 fontSize, isTyping, timers, phase, display, anim, status,
                 saved, other, recording>>

\* The fields of the second editor as its handlers see them; its page has
\* the text area, and what it shows is not part of the state
That == [This EXCEPT !.content = other.content]

\* the second editor's page is opened: setupElements, lines 34-65
OtherOpen ==
  /\ other.pc = "closed"
  /\ \E recent \in BOOLEAN :
       \E m \in {setupSteps([That EXCEPT !.content = <<>>], recent)} :
          /\ other' = [pc |-> "running", content |-> m.content]
          /\ lastOp' = [Op("otherOpen", m) EXCEPT !.saves = 0]
  /\ burst' = Aged
  /\ UNCHANGED <<pc, dom, storage, store, themeStore, fontStore, content, dataTheme,
                 fontSize, isTyping, timers, phase, display, anim, status,
                 saved, recording>>

\* the user types in the second editor
OtherInput ==
  /\ other.pc = "running"
  /\ \E value \in Contents \ {other.content} :
       other' = [other EXCEPT !.content = value]
  /\ lastOp' = [Constructed EXCEPT !.name = "otherInput"]
  /\ burst' = Aged
  /\ UNCHANGED <<pc, dom, storage, store, themeStore, fontStore, content, dataTheme,
                 fontSize, isTyping, timers, phase, display, anim, status,
                 saved, recording>>

\* a save of the second editor (its debounce timer, save button or unload)
OtherSave ==
  /\ other.pc = "running"
  /\ \E m \in {saveToLocalStorage(That)} :
       /\ store' = m.store
       /\ lastOp' = Op("otherSave", m)
       /\ saved' = IF m.failed THEN saved ELSE m.content
  /\ burst' = Aged
  /\ UNCHANGED <<pc, dom, storage, themeStore, fontStore, content, dataTheme,
                 fontSize, isTyping, timers, phase, display, anim, status,
                 other, recording>>

Init == InitOn(Pages, Foreign, Modes, FALSE)

\* one page session after the other, the storage as it is
Session ==
  \/ SetupElements
  \/ TextInput
  \/ Paste
  \/ TabKey
  \/ Save
  \/ Clear
  \/ TypingTimeout
  \/ AutoSaveTimeout
  \/ PasteTimeout
  \/ StatusTimeout
  \/ AutoSaveTick
  \/ Advance
  \/ Unload
  \/ Reload

Next == Session \/ StorageChange

Spec == Init /\ [][Next]_vars

\* the same editor with the bursts of input events recorded, over a storage
\* that takes the writes or refuses them
BurstSpec ==
  InitOn(Pages, {Absent, Malformed}, {"ok", "full"}, TRUE) /\ [][Session]_vars

\* the editor on a page with counters, their animations running
Counting ==
  \/ SetupElements
  \/ TextInput
  \/ Paste
  \/ TabKey
  \/ Clear
  \/ TypingTimeout
  \/ AutoSaveTimeout
  \/ PasteTimeout
  \/ AutoSaveTick
  \/ AnimTick
  \/ Advance

StatsSpec == InitOn(StatPages, {Absent, Earlier}, {"ok"}, FALSE) /\ [][Counting]_vars

\* A running editor in the middle of a session: a text in the text area that
\* the last save stored, the counters settled on it, the interval running.
TextInit ==
  /\ recording = FALSE
  /\ pc = "running"
  /\ dom = AllIds
  /\ storage = "ok"
  /\ content \in Texts
  /\ store = JSONstringify([content |-> content, timestamp |-> "iso",
                            stats |-> stats(content)])
  /\ themeStore = "dark"
  /\ fontStore = "none"
  /\ dataTheme = "dark"
  /\ fontSize = "16"
  /\ isTyping = FALSE
  /\ timers = <<Timer("interval", AutoSaveEvery)>>
  /\ phase = 0
  /\ display = [el \in {"charCount", "wordCount", "lineCount"} |->
                  IF el = "charCount" THEN chars(content)
                  ELSE IF el = "wordCount" THEN words(content) ELSE lines(content)]
  /\ anim = <<>>
  /\ status = Hidden
  /\ lastOp = [Constructed EXCEPT !.name = "other"]
  /\ saved = content
  /\ other = Closed2
  /\ burst = Idle

\* Tab keys and saves of such a session
TextSpec == TextInit /\ [][TabKey \/ Save]_vars

\* two editors on one working storage, the first on the page with the text area
TabsSpec ==
  /\ InitOn({{"textInput", "statusMessage"}}, {Absent}, {"ok"}, FALSE)
  /\ [][Session \/ OtherOpen \/ OtherInput \/ OtherSave]_vars

\* copies of the text of such a session
CopySpec == TextInit /\ [][Copy]_vars

\* --------------------------------------------------------- properties
Pending(ts, kind) == Len(SelectSeq(ts, LAMBDA t : t.kind = kind))

\* what a parse of the stored value gives as the content
StoredContent == JSONparse(store).content
StoredContentNext == JSONparse(store').content

\* the state a debounced save has just produced: its burst is closed
BurstClosed == recording /\ ~burst.open /\ burst.inputs >= 1

\* C1 (as amended): the input events of a burst leave one debounce timer
\* pending, set to 2000 ms at the last of them; the debounced save runs once,
\* when that timer fires and for a burst only, and writes (when the store
\* takes it) the content the text area holds at that moment.  A paste also
\* saves on a timer of its own: every paste whose timer is counted as owed is
\* pending, so each is saved apart from the debounced save.
C1_DebouncedSave ==
  /\ burst.open => Pending(timers, "autosave") = 1
  /\ lastOp.name \in {"input", "paste"} =>
       \E i \in 1..Len(timers) : timers[i] = Timer("autosave", AutoSaveDelay)
  /\ lastOp.name = "autoSaveTimeout" => BurstClosed
  /\ BurstClosed =>
       /\ burst.dsaves = 1
       /\ Pending(timers, "autosave") = 0
       /\ ~lastOp.failed => StoredContent = content
  /\ recording => burst.owed = PendingPastes(timers)

\* C1 as stated: the burst causes exactly one write, of the content at its
\* last input event
C1_Original ==
  (BurstClosed /\ ~lastOp.failed) =>
     /\ burst.dsaves = 1
     /\ ~burst.pwrote
     /\ StoredContent = burst.last

C1_Witness ==
  /\ BurstClosed
  /\ burst.inputs = 2
  /\ burst.dsaves = 1
  /\ ~lastOp.failed
  /\ StoredContent = <<"a">>

\* C2: the editor that starts on a readable store after a successful save of
\* content c shows exactly c, whitespace and escaped characters included
C2_RoundTrip ==
  (lastOp.name = "setupElements" /\ pc = "running" /\ storage # "disabled"
     /\ saved # Undefined) => content = saved

C2_Witness ==
  /\ lastOp.name = "setupElements"
  /\ pc = "running"
  /\ saved = <<"\t">>
  /\ content = <<"\t">>

\* C3: a save the store refuses leaves the stored value as it was, lets its
\* handler return normally, changes the text only as the handler did before
\* the save (a confirmed clear) and sets up no timer that would save again
C3_PersistNeverRaises ==
  [][(lastOp'.saves > 0 /\ lastOp'.failed) =>
        /\ ~lastOp'.threw
        /\ store' = store
        /\ content' = (IF lastOp'.accepted THEN <<>> ELSE content)
        /\ \A kind \in {"autosave", "paste", "interval"} :
             Pending(timers', kind) <= Pending(timers, kind)]_vars

C3_Witness ==
  /\ lastOp.name = "autoSaveTimeout"
  /\ lastOp.saves = 1
  /\ lastOp.failed
  /\ ~lastOp.threw
  /\ content # <<>>
  /\ store = Absent

\* C4: a step in which a store access failed leaves an error notice on the
\* status line of a page that has one
C4_FailureNoticed ==
  (lastOp.failed /\ "statusMessage" \in dom) =>
     (status.shown /\ status.type = "error")

\* C5: the editor that starts on a readable store whose value is absent,
\* empty or no JSON has an empty text area and its theme, font size and
\* autosave interval set up; a record without content gives the empty text
C5_RestoreDefaults ==
  (lastOp.name = "setupElements" /\ pc = "running" /\ storage # "disabled") =>
     /\ store.kind \in {"absent", "empty", "malformed"} =>
          /\ content = <<>>
          /\ dataTheme = themeStore
          /\ fontSize = "16"
          /\ Pending(timers, "interval") = 1
          /\ ~lastOp.threw
     /\ (store.kind \in {"null", "json"} /\ ~store.hasContent) => content = <<>>

C5_Witness ==
  /\ lastOp.name = "setupElements"
  /\ pc = "running"
  /\ storage = "ok"
  /\ store = Malformed
  /\ lastOp.failed
  /\ content = <<>>
  /\ dataTheme = "dark"
  /\ Pending(timers, "interval") = 1

\* what updateStats derives for a counter from the content
Derived(el) ==
  IF el = "charCount" THEN chars(content)
  ELSE IF el = "wordCount" THEN words(content) ELSE lines(content)

\* C6: with no animation timer alive the counters change only with the next
\* event, so by then each shows the value derived from the content
C6_QuiescentShown ==
  (pc = "running" /\ anim = <<>>) =>
     \A el \in dom \cap {"charCount", "wordCount", "lineCount"} :
        display[el] = Derived(el)

\* C7: a tick of the interval saves exactly when the content is not blank,
\* writing the content as it is, and no other step of the running editor
\* touches the interval timer
C7_IntervalPersist ==
  [][/\ lastOp'.name = "autoSaveTick" =>
          /\ lastOp'.saves = (IF trim(content) # <<>> THEN 1 ELSE 0)
          /\ content' = content
          /\ (lastOp'.saves = 1 /\ ~lastOp'.failed) => StoredContentNext = content
          /\ (lastOp'.saves = 0 \/ lastOp'.failed) => store' = store
          /\ Pending(timers', "autosave") = Pending(timers, "autosave")
     /\ (pc = "running" /\ pc' = "running") =>
          /\ Pending(timers, "interval") = 1
          /\ Pending(timers', "interval") = 1]_vars

C7_Witness ==
  /\ lastOp.name = "autoSaveTick"
  /\ lastOp.saves = 1
  /\ ~lastOp.failed
  /\ StoredContent = content
  /\ Pending(timers, "autosave") = 1

\* C8: a clear of an empty text area asks nothing, changes neither the
\* content nor the stored value and saves nothing
C8_ClearOnEmpty ==
  [][(lastOp'.name = "clear" /\ content = <<>>) =>
        /\ ~lastOp'.prompted
        /\ lastOp'.saves = 0
        /\ content' = content
        /\ store' = store]_vars

C8_Witness ==
  /\ lastOp.name = "clear"
  /\ ~lastOp.prompted
  /\ content = <<>>
  /\ status.text = "Text area is already empty"

\* C9: a confirmed clear empties the text area and saves the empty content
\* in the same handler; a declined clear changes neither the content nor the
\* stored value
C9_ConfirmedClear ==
  [][lastOp'.name = "clear" =>
        /\ lastOp'.accepted =>
             /\ lastOp'.prompted
             /\ content' = <<>>
             /\ lastOp'.saves = 1
             /\ storage = "ok" => (store'.kind = "json" /\ StoredContentNext = <<>>)
        /\ (lastOp'.prompted /\ ~lastOp'.accepted) =>
             /\ content' = content
             /\ store' = store
             /\ lastOp'.saves = 0]_vars

C9_Witness ==
  /\ lastOp.name = "clear"
  /\ lastOp.accepted
  /\ content = <<>>
  /\ storage = "ok"
  /\ StoredContent = <<>>
  /\ Pending(timers, "autosave") = 1

\* C10: leaving the page of a running editor saves once, and the stored
\* content is then the content of the text area at that moment when the
\* store takes the write
C10_FinalFlush ==
  (lastOp.name = "unload" /\ "textInput" \in dom) =>
     /\ lastOp.saves = 1
     /\ storage = "ok" => (store.kind = "json" /\ StoredContent = content)

C10_Witness ==
  /\ lastOp.name = "unload"
  /\ lastOp.saves = 1
  /\ storage = "ok"
  /\ content = <<"\t">>
  /\ StoredContent = <<"\t">>

\* the number of sep in s
RECURSIVE Count(_, _)
Count(s, sep) ==
  IF s = <<>> THEN 0 ELSE (IF Head(s) = sep THEN 1 ELSE 0) + Count(Tail(s), sep)

\* the number of leading spaces of a line
RECURSIVE LeadingSpaces(_)
LeadingSpaces(line) ==
  IF line # <<>> /\ Head(line) = " " THEN 1 + LeadingSpaces(Tail(line)) ELSE 0

\* a line without one leading tab, or else without up to four leading spaces
Outdented(line) ==
  IF line # <<>> /\ Head(line) = "\t" THEN Tail(line)
  ELSE SubSeq(line, Min(LeadingSpaces(line), 4) + 1, Len(line))

\* C11: Shift+Tab takes from every line between the line of the selection
\* start and the line of the selection end one leading tab, or else its
\* leading spaces up to four, and leaves the other lines as they are
C11_RemoveIndentation ==
  [][lastOp'.name = "shiftTab" =>
       LET ls == split(content, "\n")
           first == Count(SubSeq(content, 1, lastOp'.start), "\n") + 1
           last == Count(SubSeq(content, 1, lastOp'.end), "\n") + 1
       IN  content' = join([i \in 1..Len(ls) |->
                              IF first <= i /\ i <= last THEN Outdented(ls[i])
                              ELSE ls[i]], "\n")]_vars

\* C12: Tab adds one tab character to the content, nothing else changed, and
\* leaves the collapsed cursor one past the selection start
C12_InsertTab ==
  [][lastOp'.name = "tab" =>
       /\ \E i \in 0..Len(content) :
            content' = SubSeq(content, 1, i) \o <<"\t">> \o SubSeq(content, i + 1, Len(content))
       /\ lastOp'.cursor = lastOp'.start + 1]_vars

\* the value updateStats last handed to animateNumber for a counter
Target(el) ==
  LET mine == SelectSeq(anim, LAMBDA t : t.el = el)
  IN  IF mine = <<>> THEN display[el] ELSE mine[Len(mine)].newValue

StatsUpdated == lastOp.name \in {"tab", "shiftTab"}

\* the number of maximal runs of characters that are not whitespace
Runs(s) ==
  Cardinality({i \in 1..Len(s) : s[i] \notin Ws /\ (i = 1 \/ s[i - 1] \in Ws)})

\* C13: the word count handed to the display and the one in the stored
\* record are the number of maximal runs of non-whitespace characters of the
\* content, 0 for an empty or blank content
C13_WordCount ==
  /\ StatsUpdated => Target("wordCount") = Runs(content)
  /\ store.stats.words = Runs(StoredContent)

C13_Witness ==
  /\ lastOp.name = "save"
  /\ content = <<"a", " ", " ", "a">>
  /\ store.stats.words = 2

\* C14: the character count handed to the display and the one in the stored
\* record are the length of the content, and the line count is 0 for the
\* empty content and otherwise the number of newlines plus one
C14_LineAndCharCount ==
  LET NL(s) == IF s = <<>> THEN 0 ELSE Count(s, "\n") + 1
  IN  /\ StatsUpdated => /\ Target("charCount") = Len(content)
                         /\ Target("lineCount") = NL(content)
      /\ store.stats.chars = Len(StoredContent)
      /\ store.stats.lines = NL(StoredContent)

C14_Witness ==
  /\ lastOp.name = "shiftTab"
  /\ content = <<"a", "\n">>
  /\ Target("lineCount") = 2
  /\ Target("charCount") = 2

\* C15: on a page without the text area the start ends with the error notice
\* and nothing else: no content restored, no theme or font size applied, no
\* timer but the one hiding the notice, and from then on no save and no
\* change of the stored value
C15_StartupAbort ==
  [][pc' = "aborted" =>
       /\ lastOp'.name = "setupElements" =>
            status' = [text |-> "Error initializing application", type |-> "error",
                       shown |-> TRUE]
       /\ content' = <<>>
       /\ dataTheme' = "none"
       /\ fontSize' = "none"
       /\ \A i \in 1..Len(timers') : timers'[i].kind = "status"
       /\ lastOp'.saves = 0
       /\ ~lastOp'.failed
       /\ store' = store]_vars

C15_Witness ==
  /\ pc = "aborted"
  /\ lastOp.name = "other"
  /\ status = Hidden
  /\ timers = <<>>
  /\ store = Malformed

\* C20: a record the editor has written holds the stats that updateStats
\* derives from the record's own content, and a write leaves nothing of the
\* record before it: the stored value is the record of the content alone
C20_RecordInvariant ==
  [][/\ (store'.kind = "json" /\ store'.hasContent) =>
          store'.stats = [chars |-> chars(StoredContentNext),
                          words |-> words(StoredContentNext),
                          lines |-> lines(StoredContentNext)]
     /\ (lastOp'.saves > 0 /\ ~lastOp'.failed) =>
          /\ StoredContentNext = content'
          /\ store' = [kind |-> "json", hasContent |-> TRUE,
                       content |-> Quote(content'), timestamp |-> "iso",
                       stats |-> [chars |-> chars(content'), words |-> words(content'),
                                  lines |-> lines(content')]]]_vars

C20_Witness ==
  /\ lastOp.name = "save"
  /\ saved = <<" ", "a", "\n">>
  /\ StoredContent = <<" ", "a", "\n">>
  /\ store.stats = [chars |-> 3, words |-> 1, lines |-> 2]

\* C16: a copy lets no error escape, shows the success notice only when the
\* text reached the clipboard, and shows an error notice when a text that is
\* not blank did not reach it
C16_CopyOutcome ==
  lastOp.name = "copy" =>
     /\ ~lastOp.threw
     /\ (status.shown /\ status.type = "success") => lastOp.copied
     /\ (trim(content) # <<>> /\ ~lastOp.copied) =>
          (status.shown /\ status.type = "error")

\* the record a save of the content c writes
Record(c) ==
  [kind |-> "json", hasContent |-> TRUE, content |-> Quote(c), timestamp |-> "iso",
   stats |-> [chars |-> chars(c), words |-> words(c), lines |-> lines(c)]]

\* C17: with two editors on one storage, a successful save of either leaves
\* exactly the record of the saving editor's content; the stored value
\* changes in no other step; a save of one editor leaves the content of the
\* other as it is, and a running editor's content changes only with its own
\* user's events
C17_LastWriteWins ==
  [][/\ (lastOp'.name = "otherSave" /\ ~lastOp'.failed) =>
          /\ store' = Record(other.content)
          /\ content' = content
          /\ other' = other
     /\ (lastOp'.name # "otherSave" /\ lastOp'.saves > 0 /\ ~lastOp'.failed) =>
          /\ store' = Record(content')
          /\ other' = other
     /\ store' # store => (lastOp'.saves > 0 /\ ~lastOp'.failed)
     /\ (pc = "running" /\ content' # content) =>
          lastOp'.name \in {"input", "paste", "tab", "shiftTab", "clear", "unload"}
     /\ (other.pc = "running" /\ other' # other) => lastOp'.name = "otherInput"]_vars

C17_Witness ==
  /\ lastOp.name = "otherSave"
  /\ pc = "running"
  /\ content = <<"a">>
  /\ other.content = <<"\t">>
  /\ store = Record(<<"\t">>)
  /\ Pending(timers, "autosave") = 1

\* C18: every live animation timer is on its way to its target, which it
\* then meets after as many ticks as it is away: started at the displayed
\* value, it counts up to a larger target and down to a smaller one
C18_AnimationsTerminate ==
  \A i \in 1..Len(anim) :
     (anim[i].newValue - anim[i].current) * anim[i].increment > 0

\* C19: an edit of the text (typed input, paste, Tab, Shift+Tab) leaves the
\* debounced save scheduled, AutoSaveDelay from the edit
C19_EditSchedulesSave ==
  [][(lastOp'.name \in {"input", "paste", "tab", "shiftTab"} /\ content' # content) =>
        \E i \in 1..Len(timers') : timers'[i] = Timer("autosave", AutoSaveDelay)]_vars

====
